---- MODULE Spec2Model ----
(***************************************************************************)
(* Model of the MSSQL MCP server (src/src/yulin_mssql_mcp/server.py): the  *)
(* table-name validator, the configuration resolver and the four protocol  *)
(* handlers, with the pymssql driver as a nondeterministic environment.    *)
(*                                                                         *)
(* A Python str is a sequence of one-character strings, except that a      *)
(* fixed literal of the source (such as "SELECT TOP 100 * FROM ") is one   *)
(* element.  A Python value is a record [t, s, n]: its type name, its      *)
(* string content and its integer content.                                 *)
(***************************************************************************)
EXTENDS Integers, Sequences, FiniteSets, TLC

----------------------------------------------------------------------------
(* Bounds of the model *)

\* longest text, after the scheme prefix, of a URI given to read_resource
MaxLen == 3
\* most rows a driver fetch returns
MaxRows == 2
\* most calls the event loop holds at a time
MaxTasks == 2

----------------------------------------------------------------------------
(* Python values *)

PyNone == [t |-> "NoneType", s |-> <<>>, n |-> 0]
PyStr(x) == [t |-> "str", s |-> x, n |-> 0]
PyInt(k) == [t |-> "int", s |-> <<>>, n |-> k]
\* a non-empty dict object, such as {"nested": "object"}
PyDict(x) == [t |-> "dict", s |-> x, n |-> 0]
PyBool(b) == [t |-> "bool", s |-> <<>>, n |-> IF b THEN 1 ELSE 0]

\* Python truthiness: None, "", 0 and {} are falsy
Truthy(v) ==
    CASE v.t = "NoneType" -> FALSE
      [] v.t = "str" -> v.s # <<>>
      [] v.t = "int" -> v.n # 0
      [] v.t = "dict" -> v.s # <<>>
      [] v.t = "bool" -> v.n # 0

Digit(d) == <<"0", "1", "2", "3", "4", "5", "6", "7", "8", "9">>[d + 1]

RECURSIVE NatToStr(_)
NatToStr(k) == IF k < 10 THEN <<Digit(k)>> ELSE NatToStr(k \div 10) \o <<Digit(k % 10)>>

IntToStr(k) == IF k < 0 THEN <<"-">> \o NatToStr(-k) ELSE NatToStr(k)

\* str(v)
str(v) ==
    CASE v.t = "NoneType" -> <<"None">>
      [] v.t = "str" -> v.s
      [] v.t = "int" -> IntToStr(v.n)
      [] v.t = "dict" -> <<"{">> \o v.s \o <<"}">>
      [] v.t = "bool" -> IF v.n # 0 THEN <<"True">> ELSE <<"False">>

\* sep.join(parts)
RECURSIVE join(_, _)
join(sep, parts) ==
    IF parts = <<>> THEN <<>>
    ELSE IF Len(parts) = 1 THEN parts[1]
    ELSE parts[1] \o sep \o join(sep, Tail(parts))

\* s.split(sep) for a one-character separator: "" splits into [""]
RECURSIVE split(_, _)
split(s, sep) ==
    IF \E i \in 1..Len(s) : s[i] = sep
    THEN LET i == CHOOSE j \in 1..Len(s) : s[j] = sep /\ \A k \in 1..(j - 1) : s[k] # sep
         IN  <<SubSeq(s, 1, i - 1)>> \o split(SubSeq(s, i + 1, Len(s)), sep)
    ELSE <<s>>

startswith(s, p) == Len(s) >= Len(p) /\ SubSeq(s, 1, Len(p)) = p

----------------------------------------------------------------------------
(* validate_table_name *)

\* representatives of the class [a-zA-Z0-9_]
WordChars == {"a", "0", "_"}
\* the characters input strings are built from
Chars == WordChars \cup {".", "/", "\n", ";", "'"}

\* [a-zA-Z0-9_]+ matches the whole of s
IsWord(s) == Len(s) > 0 /\ \A i \in 1..Len(s) : s[i] \in WordChars

\* [a-zA-Z0-9_]+(\.[a-zA-Z0-9_]+)? matches the whole of s
MatchesBody(s) ==
    \/ IsWord(s)
    \/ \E k \in 2..(Len(s) - 1) :
          /\ s[k] = "."
          /\ IsWord(SubSeq(s, 1, k - 1))
          /\ IsWord(SubSeq(s, k + 1, Len(s)))

\* re.match(r"^[a-zA-Z0-9_]+(\.[a-zA-Z0-9_]+)?$", s): without re.MULTILINE "$"
\* matches at the end of s and also just before a line break that ends s
re_match(s) ==
    \/ MatchesBody(s)
    \/ Len(s) > 0 /\ s[Len(s)] = "\n" /\ MatchesBody(SubSeq(s, 1, Len(s) - 1))

ValueError(msg) == [exc |-> "ValueError", val |-> msg]
Returned(v) == [exc |-> "none", val |-> v]

\* escapes the parts in reverse order
validate_table_name_swapped(table_name) ==
    IF ~re_match(table_name)
    THEN ValueError(<<"Invalid table name: ">> \o table_name)
    ELSE LET parts == split(table_name, ".")
         IN  IF Len(parts) = 2
             THEN Returned(<<"[">> \o parts[2] \o <<"]", ".", "[">> \o parts[1] \o <<"]">>)
             ELSE Returned(<<"[">> \o table_name \o <<"]">>)

validate_table_name(table_name) ==
    IF ~re_match(table_name)
    THEN ValueError(<<"Invalid table name: ">> \o table_name)
    ELSE LET parts == split(table_name, ".")
         IN  IF Len(parts) = 2
             THEN Returned(<<"[">> \o parts[1] \o <<"]", ".", "[">> \o parts[2] \o <<"]">>)
             ELSE Returned(<<"[">> \o table_name \o <<"]">>)

----------------------------------------------------------------------------
(* The process environment and get_db_config.  An environment is a function *)
(* from the names of the variables that are set to their values; a value is *)
(* a sequence whose elements are characters or whole literals of the source *)

\* os.getenv(k): None when k is unset
getenv(e, k) == IF k \in DOMAIN e THEN PyStr(e[k]) ELSE PyNone

\* os.getenv(k, default)
getenv_or(e, k, default) == IF k \in DOMAIN e THEN PyStr(e[k]) ELSE PyStr(default)

\* s.lower(), element by element
lower(s) ==
    [i \in 1..Len(s) |->
        CASE s[i] \in {"TRUE", "True", "true"} -> "true"
          [] s[i] \in {"FALSE", "False", "false"} -> "false"
          [] OTHER -> s[i]]

DigitChars == {"0", "1", "2", "3", "4", "5", "6", "7", "8", "9"}
DigitValue(c) == CHOOSE d \in 0..9 : Digit(d) = c

RECURSIVE DigitsToNat(_)
DigitsToNat(s) ==
    IF s = <<>> THEN 0 ELSE 10 * DigitsToNat(SubSeq(s, 1, Len(s) - 1)) + DigitValue(s[Len(s)])

RECURSIVE strip(_)
strip(s) ==
    IF s # <<>> /\ s[1] = " " THEN strip(Tail(s))
    ELSE IF s # <<>> /\ s[Len(s)] = " " THEN strip(SubSeq(s, 1, Len(s) - 1))
    ELSE s

\* int(s) succeeds: surrounding blanks, an optional sign, then decimal digits
int_parses(s) ==
    LET b == strip(s)
        d == IF b # <<>> /\ b[1] \in {"+", "-"} THEN Tail(b) ELSE b
    IN  d # <<>> /\ \A i \in 1..Len(d) : d[i] \in DigitChars

\* int(s), where it succeeds
int(s) ==
    LET b == strip(s)
    IN  IF b[1] = "-" THEN -DigitsToNat(Tail(b))
        ELSE IF b[1] = "+" THEN DigitsToNat(Tail(b))
        ELSE DigitsToNat(b)

LOCALDB == "(localdb)\\"
AZURE_SUFFIX == ".database.windows.net"

\* the dict d with d[k] = v
DictSet(d, k, v) == [x \in DOMAIN d \cup {k} |-> IF x = k THEN v ELSE d[x]]
\* d.pop(k, None)
DictPop(d, k) == [x \in DOMAIN d \ {k} |-> d[x]]

ConfigError == [exc |-> "ValueError", val |-> <<"Missing required database configuration">>]

\* the environments the server is run under
EnvSqlAuth == [MSSQL_USER |-> <<"sa">>, MSSQL_PASSWORD |-> <<"pw">>,
               MSSQL_DATABASE |-> <<"db">>]
EnvWindowsAuth == [MSSQL_WINDOWS_AUTH |-> <<"True">>, MSSQL_DATABASE |-> <<"db">>,
                   MSSQL_SERVER |-> <<"srv", AZURE_SUFFIX>>, MSSQL_PORT |-> <<"1", "5">>,
                   MSSQL_COMMAND |-> <<"run_sql">>]
EnvNoDatabase == [MSSQL_USER |-> <<"sa">>, MSSQL_PASSWORD |-> <<"pw">>]
Envs == {EnvSqlAuth, EnvWindowsAuth, EnvNoDatabase}
\* the environment the server is started under: main() ends the process
\* unless get_db_config() returns
StartEnv == EnvSqlAuth

\* lines 47-60: the server, with a LocalDB name rewritten
cfg_server(e) ==
    LET server == getenv_or(e, "MSSQL_SERVER", <<"localhost">>).s
    IN  IF startswith(server, <<LOCALDB>>)
        THEN <<".\\">> \o SelectSeq(server, LAMBDA c : c # LOCALDB)
        ELSE server

\* lines 62-68: the dict as first built
cfg_dict(e) ==
    [server |-> PyStr(cfg_server(e)),
     user |-> getenv(e, "MSSQL_USER"),
     password |-> getenv(e, "MSSQL_PASSWORD"),
     database |-> getenv(e, "MSSQL_DATABASE"),
     port |-> getenv_or(e, "MSSQL_PORT", <<"1", "4", "3", "3">>)]

\* lines 70-75: a port that parses replaces the entry; one that does not is
\* warned about and the entry is left as it is
cfg_port(config, e) ==
    LET port == getenv(e, "MSSQL_PORT")
    IN  IF Truthy(port) /\ int_parses(port.s)
        THEN DictSet(config, "port", PyInt(int(port.s)))
        ELSE config

\* never sets the TDS version
cfg_tds_never(config) == config

\* lines 79-81: ".database.windows.net" in config["server"]
cfg_tds(config) ==
    IF Truthy(config["server"])
          /\ \E i \in 1..Len(config["server"].s) : config["server"].s[i] = AZURE_SUFFIX
    THEN DictSet(config, "tds_version", PyStr(<<"7.4">>))
    ELSE config

\* os.getenv("MSSQL_WINDOWS_AUTH", "false").lower() == "true"
use_windows_auth(e) == lower(getenv_or(e, "MSSQL_WINDOWS_AUTH", <<"false">>).s) = <<"true">>

\* requires the database alone, in both modes
cfg_auth_database_only(config, e) ==
    IF ~Truthy(config["database"])
    THEN ConfigError
    ELSE IF use_windows_auth(e)
    THEN Returned(DictPop(DictPop(config, "user"), "password"))
    ELSE Returned(config)

\* leaves user and password in the dict under Windows authentication
cfg_auth_keep_credentials(config, e) ==
    IF use_windows_auth(e)
    THEN IF ~Truthy(config["database"]) THEN ConfigError ELSE Returned(config)
    ELSE IF ~(Truthy(config["user"]) /\ Truthy(config["password"])
              /\ Truthy(config["database"]))
         THEN ConfigError
         ELSE Returned(config)

\* lines 87-107: what each authentication mode requires, and the return
cfg_auth(config, e) ==
    IF use_windows_auth(e)
    THEN IF ~Truthy(config["database"])
         THEN ConfigError
         ELSE Returned(DictPop(DictPop(config, "user"), "password"))
    ELSE IF ~(Truthy(config["user"]) /\ Truthy(config["password"])
              /\ Truthy(config["database"]))
         THEN ConfigError
         ELSE Returned(config)

\* resolves under the environment of the start, whatever it is now
get_db_config_cached(e) ==
    cfg_auth(cfg_tds(cfg_port(cfg_dict(StartEnv), StartEnv)), StartEnv)

get_db_config(e) == cfg_auth(cfg_tds(cfg_port(cfg_dict(e), e)), e)

\* the other copy of the server (src/src/mssql_mcp_server/server.py), lines
\* 65-73: the TDS version and the "encrypt" entry
legacy_cfg_encrypt(config, e) ==
    IF Truthy(config["server"])
          /\ \E i \in 1..Len(config["server"].s) : config["server"].s[i] = AZURE_SUFFIX
    THEN LET c == DictSet(config, "tds_version", PyStr(<<"7.4">>))
         IN  IF lower(getenv_or(e, "MSSQL_ENCRYPT", <<"true">>).s) = <<"true">>
             THEN DictSet(c, "encrypt", PyBool(TRUE))
             ELSE c
    ELSE DictSet(config, "encrypt",
                 PyBool(lower(getenv_or(e, "MSSQL_ENCRYPT", <<"false">>).s) = <<"true">>))

\* get_db_config of that copy: the same steps around its own encryption step
legacy_get_db_config(e) == cfg_auth(legacy_cfg_encrypt(cfg_port(cfg_dict(e), e), e), e)

\* ignores MSSQL_COMMAND
get_command_fixed(e) == <<"execute_sql">>

\* get_command(): the tool's name
get_command(e) == getenv_or(e, "MSSQL_COMMAND", <<"execute_sql">>).s


----------------------------------------------------------------------------
(* The driver (pymssql), as the handlers see it *)

\* classes of the errors a driver call raises: a subclass of
\* pymssql.DatabaseError, and an exception outside that hierarchy
DriverErrorClasses == {"OperationalError", "Exception"}
\* a password as it appears in a message of the driver
SECRET == "secret123"
DriverMessages == {<<"Network error">>,
                   <<"Login failed for user 'sa' with password '", SECRET, "'">>}
Failures == [cls : DriverErrorClasses, msg : DriverMessages]

\* isinstance(e, pymssql.DatabaseError)
IsDatabaseError(cls) ==
    cls \in {"DatabaseError", "OperationalError", "ProgrammingError", "IntegrityError",
             "DataError", "InternalError", "NotSupportedError"}

\* cursor.description after execute: None, or one entry per column
NoDescription == [none |-> TRUE, cols |-> <<>>]
Description(cols) == [none |-> FALSE, cols |-> cols]
Descriptions == {NoDescription, Description(<<<<"id">>>>), Description(<<<<"id">>, <<"name">>>>)}

Cells == {PyNone, PyInt(1)}
\* what fetchall returns for a statement with w columns
RowSets(w) == UNION {[1..k -> [1..w -> Cells]] : k \in 0..MaxRows}

\* cursor.rowcount
RowCounts == {-1, 0, 2}

\* table names the catalog query returns
TableNames == {<<"a">>, <<"a", ".", "0">>, <<"a", "'">>, <<"a", "/", "0">>}
Catalogs == UNION {[1..k -> [1..1 -> {PyStr(t) : t \in TableNames}]] : k \in 0..MaxRows}

CATALOG_QUERY == PyStr(<<"SELECT TABLE_NAME FROM INFORMATION_SCHEMA.TABLES WHERE TABLE_TYPE = 'BASE TABLE'">>)

----------------------------------------------------------------------------
(* Requests *)

MSSQL == <<"m", "s", "s", "q", "l", ":", "/", "/">>
Schemes == {MSSQL, <<"h", "t", "t", "p", ":", "/", "/">>, <<"m", "s", "s", "q", "l", ":", "/">>}
Strings(n) == UNION {[1..k -> Chars] : k \in 0..n}
DATA == <<"/", "d", "a", "t", "a">>
\* the URIs list_resources gives out for the tables of the catalog
ListedUris == {MSSQL \o t \o DATA : t \in TableNames}
Uris == {sch \o r : sch \in Schemes, r \in Strings(MaxLen)} \cup ListedUris

ToolNames == {<<"execute_sql">>, <<"run_sql">>, <<"drop_all">>}
\* the arguments dict: its "query" entry, when it has one
NoArguments == [has_query |-> FALSE, query |-> PyNone]
Arguments(q) == [has_query |-> TRUE, query |-> q]
Queries == {PyNone, PyStr(<<>>), PyStr(<<"SELECT * FROM users">>),
            PyStr(<<"UPDATE users SET status = 'active'">>), PyDict(<<"nested">>)}
ArgumentDicts == {NoArguments} \cup {Arguments(q) : q \in Queries}
\* arguments.get("query")
GetQuery(arguments) == IF arguments.has_query THEN arguments.query ELSE PyNone

----------------------------------------------------------------------------
(* State *)

VARIABLES
    env,      \* os.environ
    pc,       \* where the handler in progress stands; "idle" between calls
    req,      \* the call in progress: handler and arguments
    local,    \* the handler's local variables
    conn,     \* its connection: "None" (never opened), "open", "closed"
    cursor,   \* its cursor: "None", "open", "closed"
    log,      \* the driver calls it made, in order
    pending,  \* call_tool: the outcome on its way out through "finally"
    result,   \* what the call gave its caller
    tasks     \* the calls the event loop was given, each with what became of it

vars == <<env, pc, req, local, conn, cursor, log, pending, result, tasks>>

NoReq == [op |-> "none", uri |-> <<>>, name |-> <<>>, arguments |-> NoArguments]
NoLocal == [config |-> <<>>, safe_table |-> <<>>, query |-> PyNone, columns |-> <<>>,
            description |-> NoDescription, affected_rows |-> PyNone, rows |-> <<>>]
NoResult == [kind |-> "none", cls |-> "", val |-> <<>>]
Return(v) == [kind |-> "return", cls |-> "", val |-> v]
Raise(cls, msg) == [kind |-> "raise", cls |-> cls, val |-> msg]

TextContent(text) == [type |-> "text", text |-> text]

\* a driver call: its name, its argument (the statement, for execute) and the
\* error it raised, if any
NoFailure == [cls |-> "", msg |-> <<>>]
Entry(call, arg, err) == [call |-> call, ok |-> err = NoFailure, arg |-> arg, err |-> err]
Logged(call) == Append(log, Entry(call, PyNone, NoFailure))
Failed(call, f) == Append(log, Entry(call, PyNone, f))

\* the call in progress got past its checks and reached the driver
ReachedDriver == Len(log) > 0
FailedCalls == {i \in 1..Len(log) : ~log[i].ok}
Calls(c) == {i \in 1..Len(log) : log[i].call = c}

\* a slot of the event loop: free, or a call that is pending, running or
\* finished, then with the kind of its outcome, whether a driver call of its
\* own failed, and the number of times it called pymssql.connect
FreeTask == [state |-> "free", req |-> NoReq, kind |-> "none", failed |-> FALSE,
             connects |-> 0]
NoTasks == [i \in 1..MaxTasks |-> FreeTask]

Init ==
    /\ env = StartEnv
    /\ pc = "idle"
    /\ req = NoReq
    /\ local = NoLocal
    /\ conn = "None"
    /\ cursor = "None"
    /\ log = <<>>
    /\ pending = NoResult
    /\ result = NoResult
    /\ tasks = NoTasks

\* the environment changes between two calls
SetEnv ==
    /\ pc = "idle"
    /\ \E e \in Envs : e # env /\ env' = e
    /\ UNCHANGED <<pc, req, local, conn, cursor, log, pending, result>>
    /\ UNCHANGED tasks

\* the call in progress ends with outcome r
Ends(r) == pc' = "done" /\ result' = r

\* the transport loop takes the outcome; the call's objects are dropped
reply ==
    /\ pc = "done"
    /\ pc' = "idle"
    /\ req' = NoReq
    /\ local' = NoLocal
    /\ conn' = "None"
    /\ cursor' = "None"
    /\ log' = <<>>
    /\ pending' = NoResult
    /\ result' = NoResult
    /\ UNCHANGED env
    /\ UNCHANGED tasks

----------------------------------------------------------------------------
(* read_resource *)

\* uri_str[8:].split("/")[0]
TableOf(uri_str) == split(SubSeq(uri_str, 9, Len(uri_str)), "/")[1]

SELECT_TOP == "SELECT TOP 100 * FROM "
DatabaseErrorText(msg) == <<"Database error: ">> \o msg

\* swallows the error and returns an empty text
rr_except_silent(msg) == Ends(Return(<<>>))

\* read_resource's "except Exception as e": raise RuntimeError(...)
rr_except(msg) == Ends(Raise("RuntimeError", DatabaseErrorText(msg)))

\* connects before it looks at the URI
read_resource_enter_eager(uri) ==
    LET config == get_db_config(env)
    IN  /\ req' = [NoReq EXCEPT !.op = "read_resource", !.uri = uri]
        /\ IF config.exc # "none"
           THEN Ends(Raise(config.exc, config.val)) /\ UNCHANGED local
           ELSE /\ pc' = "rr_connect"
                /\ local' = [NoLocal EXCEPT !.config = config.val,
                                            !.safe_table = <<"[">> \o TableOf(uri) \o <<"]">>]
                /\ UNCHANGED result

\* lines 158-170: from the call to the validated table name
read_resource_enter(uri) ==
    LET config == get_db_config(env)
        safe_table == validate_table_name(TableOf(uri))
    IN  /\ req' = [NoReq EXCEPT !.op = "read_resource", !.uri = uri]
        /\ IF config.exc # "none"
           THEN Ends(Raise(config.exc, config.val)) /\ UNCHANGED local
           ELSE IF ~startswith(uri, MSSQL)
           THEN Ends(Raise("ValueError", <<"Invalid URI scheme: ">> \o uri)) /\ UNCHANGED local
           ELSE IF safe_table.exc # "none"
           THEN rr_except(safe_table.val) /\ UNCHANGED local
           ELSE /\ pc' = "rr_connect"
                /\ local' = [NoLocal EXCEPT !.config = config.val, !.safe_table = safe_table.val]
                /\ UNCHANGED result

read_resource ==
    /\ pc = "idle"
    /\ \E uri \in Uris : read_resource_enter(uri)
    /\ UNCHANGED <<env, conn, cursor, log, pending>>
    /\ UNCHANGED tasks

\* conn = pymssql.connect(**config)
rr_connect ==
    /\ pc = "rr_connect"
    /\ \/ /\ conn' = "open"
          /\ log' = Logged("connect")
          /\ pc' = "rr_cursor"
          /\ UNCHANGED result
       \/ \E f \in Failures :
             /\ log' = Failed("connect", f)
             /\ rr_except(f.msg)
             /\ UNCHANGED conn
    /\ UNCHANGED <<env, req, local, cursor, pending>>
    /\ UNCHANGED tasks

\* cursor = conn.cursor()
rr_cursor ==
    /\ pc = "rr_cursor"
    /\ \/ /\ cursor' = "open"
          /\ log' = Logged("cursor")
          /\ pc' = "rr_execute"
          /\ UNCHANGED result
       \/ \E f \in Failures :
             /\ log' = Failed("cursor", f)
             /\ rr_except(f.msg)
             /\ UNCHANGED cursor
    /\ UNCHANGED <<env, req, local, conn, pending>>
    /\ UNCHANGED tasks

\* the statement read_resource builds
rr_statement(safe_table) == PyStr(<<SELECT_TOP>> \o safe_table)

\* cursor.execute(...); columns = [desc[0] for desc in cursor.description]
rr_execute ==
    /\ pc = "rr_execute"
    /\ \/ \E d \in Descriptions :
             /\ log' = Append(log, Entry("execute", rr_statement(local.safe_table), NoFailure))
             /\ IF d.none
                THEN rr_except(<<"'NoneType' object is not iterable">>) /\ UNCHANGED local
                ELSE /\ local' = [local EXCEPT !.columns = d.cols]
                     /\ pc' = "rr_fetchall"
                     /\ UNCHANGED result
       \/ \E f \in Failures :
             /\ log' = Append(log, Entry("execute", rr_statement(local.safe_table), f))
             /\ rr_except(f.msg)
             /\ UNCHANGED local
    /\ UNCHANGED <<env, req, conn, cursor, pending>>
    /\ UNCHANGED tasks

\* [",".join(map(str, row)) for row in rows]
rr_lines(rows) == [i \in 1..Len(rows) |-> join(<<",">>, [j \in 1..Len(rows[i]) |-> str(rows[i][j])])]
\* "\n".join([",".join(columns)] + result)
rr_text(columns, rows) == join(<<"\n">>, <<join(<<",">>, columns)>> \o rr_lines(rows))

\* rows = cursor.fetchall(), then the lines of the text
rr_fetchall ==
    /\ pc = "rr_fetchall"
    /\ \/ \E rows \in RowSets(Len(local.columns)) :
             /\ log' = Logged("fetchall")
             /\ local' = [local EXCEPT !.rows = rows]
             /\ pending' = Return(rr_text(local.columns, rows))
             /\ pc' = "rr_cursor_close"
             /\ UNCHANGED result
       \/ \E f \in Failures :
             /\ log' = Failed("fetchall", f)
             /\ rr_except(f.msg)
             /\ UNCHANGED <<local, pending>>
    /\ UNCHANGED <<env, req, conn, cursor>>
    /\ UNCHANGED tasks

\* cursor.close()
rr_cursor_close ==
    /\ pc = "rr_cursor_close"
    /\ \/ /\ cursor' = "closed"
          /\ log' = Logged("cursor.close")
          /\ pc' = "rr_conn_close"
          /\ UNCHANGED result
       \/ \E f \in Failures :
             /\ log' = Failed("cursor.close", f)
             /\ rr_except(f.msg)
             /\ UNCHANGED cursor
    /\ UNCHANGED <<env, req, local, conn, pending>>
    /\ UNCHANGED tasks

\* conn.close(), then the return
rr_conn_close ==
    /\ pc = "rr_conn_close"
    /\ \/ /\ conn' = "closed"
          /\ log' = Logged("conn.close")
          /\ Ends(pending)
       \/ \E f \in Failures :
             /\ log' = Failed("conn.close", f)
             /\ rr_except(f.msg)
             /\ UNCHANGED conn
    /\ UNCHANGED <<env, req, local, cursor, pending>>
    /\ UNCHANGED tasks

----------------------------------------------------------------------------
(* list_resources *)

\* a resource whose uri lacks the "/data" part
Resource_bare(table) ==
    [uri |-> MSSQL \o str(table[1]),
     name |-> <<"Table: ">> \o str(table[1]),
     mimeType |-> <<"text/plain">>,
     description |-> <<"Data in table: ">> \o str(table[1])]

\* Resource(uri=f"mssql://{table[0]}/data", name=f"Table: {table[0]}", ...)
Resource(table) ==
    [uri |-> MSSQL \o str(table[1]) \o DATA,
     name |-> <<"Table: ">> \o str(table[1]),
     mimeType |-> <<"text/plain">>,
     description |-> <<"Data in table: ">> \o str(table[1])]

\* lets a driver error out to the caller
lr_except_raising == Ends(Raise("RuntimeError", <<"Failed to list resources">>))

\* list_resources' "except Exception": return []
lr_except == Ends(Return(<<>>))

\* takes a connection that an earlier call opened, when there is one
list_resources_enter_pooled ==
    LET config == get_db_config(env)
    IN  /\ req' = [NoReq EXCEPT !.op = "list_resources"]
        /\ IF config.exc # "none"
           THEN Ends(Raise(config.exc, config.val)) /\ UNCHANGED local
           ELSE /\ pc' = IF \E j \in 1..MaxTasks : tasks[j].connects > 0
                         THEN "lr_cursor" ELSE "lr_connect"
                /\ local' = [NoLocal EXCEPT !.config = config.val]
                /\ UNCHANGED result

\* line 122: the configuration is resolved
list_resources_enter ==
    LET config == get_db_config(env)
    IN  /\ req' = [NoReq EXCEPT !.op = "list_resources"]
        /\ IF config.exc # "none"
           THEN Ends(Raise(config.exc, config.val)) /\ UNCHANGED local
           ELSE /\ pc' = "lr_connect"
                /\ local' = [NoLocal EXCEPT !.config = config.val]
                /\ UNCHANGED result

list_resources ==
    /\ pc = "idle"
    /\ list_resources_enter
    /\ UNCHANGED <<env, conn, cursor, log, pending>>
    /\ UNCHANGED tasks

\* conn = pymssql.connect(**config)
lr_connect ==
    /\ pc = "lr_connect"
    /\ \/ /\ conn' = "open"
          /\ log' = Logged("connect")
          /\ pc' = "lr_cursor"
          /\ UNCHANGED result
       \/ \E f \in Failures :
             /\ log' = Failed("connect", f)
             /\ lr_except
             /\ UNCHANGED conn
    /\ UNCHANGED <<env, req, local, cursor, pending>>
    /\ UNCHANGED tasks

\* cursor = conn.cursor()
lr_cursor ==
    /\ pc = "lr_cursor"
    /\ \/ /\ cursor' = "open"
          /\ log' = Logged("cursor")
          /\ pc' = "lr_execute"
          /\ UNCHANGED result
       \/ \E f \in Failures :
             /\ log' = Failed("cursor", f)
             /\ lr_except
             /\ UNCHANGED cursor
    /\ UNCHANGED <<env, req, local, conn, pending>>
    /\ UNCHANGED tasks

\* cursor.execute(the catalog query)
lr_execute ==
    /\ pc = "lr_execute"
    /\ \/ /\ log' = Append(log, Entry("execute", CATALOG_QUERY, NoFailure))
          /\ pc' = "lr_fetchall"
          /\ UNCHANGED result
       \/ \E f \in Failures :
             /\ log' = Append(log, Entry("execute", CATALOG_QUERY, f))
             /\ lr_except
    /\ UNCHANGED <<env, req, local, conn, cursor, pending>>
    /\ UNCHANGED tasks

\* tables = cursor.fetchall(), then one Resource per table
lr_fetchall ==
    /\ pc = "lr_fetchall"
    /\ \/ \E tables \in Catalogs :
             /\ log' = Logged("fetchall")
             /\ local' = [local EXCEPT !.rows = tables]
             /\ pending' = Return([i \in 1..Len(tables) |-> Resource(tables[i])])
             /\ pc' = "lr_cursor_close"
             /\ UNCHANGED result
       \/ \E f \in Failures :
             /\ log' = Failed("fetchall", f)
             /\ lr_except
             /\ UNCHANGED <<local, pending>>
    /\ UNCHANGED <<env, req, conn, cursor>>
    /\ UNCHANGED tasks

\* cursor.close()
lr_cursor_close ==
    /\ pc = "lr_cursor_close"
    /\ \/ /\ cursor' = "closed"
          /\ log' = Logged("cursor.close")
          /\ pc' = "lr_conn_close"
          /\ UNCHANGED result
       \/ \E f \in Failures :
             /\ log' = Failed("cursor.close", f)
             /\ lr_except
             /\ UNCHANGED cursor
    /\ UNCHANGED <<env, req, local, conn, pending>>
    /\ UNCHANGED tasks

\* conn.close(), then return resources
lr_conn_close ==
    /\ pc = "lr_conn_close"
    /\ \/ /\ conn' = "closed"
          /\ log' = Logged("conn.close")
          /\ Ends(pending)
       \/ \E f \in Failures :
             /\ log' = Failed("conn.close", f)
             /\ lr_except
             /\ UNCHANGED conn
    /\ UNCHANGED <<env, req, local, cursor, pending>>
    /\ UNCHANGED tasks

----------------------------------------------------------------------------
(* list_tools *)

Tool(command) ==
    [name |-> command,
     description |-> <<"Execute an SQL query on the SQL Server">>,
     required |-> <<"query">>,
     properties |-> [query |-> "string"]]

\* the one tool, under the name of get_command()
list_tools_enter ==
    /\ req' = [NoReq EXCEPT !.op = "list_tools"]
    /\ Ends(Return(<<Tool(get_command(env))>>))
    /\ UNCHANGED local

list_tools ==
    /\ pc = "idle"
    /\ list_tools_enter
    /\ UNCHANGED <<env, conn, cursor, log, pending>>
    /\ UNCHANGED tasks

----------------------------------------------------------------------------
(* call_tool *)

ErrorText(msg) == <<"Error executing query: ">> \o msg

\* the "finally" block is entered with outcome p: it closes what was opened
ct_finally(p) ==
    /\ pending' = p
    /\ IF cursor # "None"
       THEN pc' = "ct_cursor_close" /\ UNCHANGED result
       ELSE IF conn # "None"
       THEN pc' = "ct_conn_close" /\ UNCHANGED result
       ELSE Ends(p)

\* the two "except" clauses, for an error f raised inside the try block
ct_except(f) ==
    IF IsDatabaseError(f.cls)
    THEN IF conn # "None"
         THEN /\ pc' = "ct_rollback"
              /\ pending' = Return(<<TextContent(DatabaseErrorText(f.msg))>>)
              /\ UNCHANGED result
         ELSE ct_finally(Return(<<TextContent(DatabaseErrorText(f.msg))>>))
    ELSE ct_finally(Return(<<TextContent(ErrorText(f.msg))>>))

\* skips the check of the query
call_tool_enter_lenient(name, arguments) ==
    LET config == get_db_config(env)
        command == get_command(env)
        query == GetQuery(arguments)
    IN  /\ req' = [NoReq EXCEPT !.op = "call_tool", !.name = name, !.arguments = arguments]
        /\ IF config.exc # "none"
           THEN Ends(Raise(config.exc, config.val)) /\ UNCHANGED local
           ELSE IF name # command
           THEN Ends(Raise("ValueError", <<"Unknown tool: ">> \o name)) /\ UNCHANGED local
           ELSE /\ pc' = "ct_connect"
                /\ local' = [NoLocal EXCEPT !.config = config.val, !.query = query]
                /\ UNCHANGED result

\* checks the tool name before it resolves the configuration
call_tool_enter_name_first(name, arguments) ==
    LET config == get_db_config(env)
        command == get_command(env)
        query == GetQuery(arguments)
    IN  /\ req' = [NoReq EXCEPT !.op = "call_tool", !.name = name, !.arguments = arguments]
        /\ IF name # command
           THEN Ends(Raise("ValueError", <<"Unknown tool: ">> \o name)) /\ UNCHANGED local
           ELSE IF config.exc # "none"
           THEN Ends(Raise(config.exc, config.val)) /\ UNCHANGED local
           ELSE IF ~Truthy(query)
           THEN Ends(Raise("ValueError", <<"Query is required">>)) /\ UNCHANGED local
           ELSE /\ pc' = "ct_connect"
                /\ local' = [NoLocal EXCEPT !.config = config.val, !.query = query]
                /\ UNCHANGED result

\* lines 215-228: configuration, tool name and query are checked
call_tool_enter(name, arguments) ==
    LET config == get_db_config(env)
        command == get_command(env)
        query == GetQuery(arguments)
    IN  /\ req' = [NoReq EXCEPT !.op = "call_tool", !.name = name, !.arguments = arguments]
        /\ IF config.exc # "none"
           THEN Ends(Raise(config.exc, config.val)) /\ UNCHANGED local
           ELSE IF name # command
           THEN Ends(Raise("ValueError", <<"Unknown tool: ">> \o name)) /\ UNCHANGED local
           ELSE IF ~Truthy(query)
           THEN Ends(Raise("ValueError", <<"Query is required">>)) /\ UNCHANGED local
           ELSE /\ pc' = "ct_connect"
                /\ local' = [NoLocal EXCEPT !.config = config.val, !.query = query]
                /\ UNCHANGED result

call_tool ==
    /\ pc = "idle"
    /\ \E name \in ToolNames, arguments \in ArgumentDicts : call_tool_enter(name, arguments)
    /\ UNCHANGED <<env, conn, cursor, log, pending>>
    /\ UNCHANGED tasks

\* conn = pymssql.connect(**config)
ct_connect ==
    /\ pc = "ct_connect"
    /\ \/ /\ conn' = "open"
          /\ log' = Logged("connect")
          /\ pc' = "ct_cursor"
          /\ UNCHANGED <<pending, result>>
       \/ \E f \in Failures :
             /\ log' = Failed("connect", f)
             /\ ct_except(f)
             /\ UNCHANGED conn
    /\ UNCHANGED <<env, req, local, cursor>>
    /\ UNCHANGED tasks

\* cursor = conn.cursor()
ct_cursor ==
    /\ pc = "ct_cursor"
    /\ \/ /\ cursor' = "open"
          /\ log' = Logged("cursor")
          /\ pc' = "ct_execute"
          /\ UNCHANGED <<pending, result>>
       \/ \E f \in Failures :
             /\ log' = Failed("cursor", f)
             /\ ct_except(f)
             /\ UNCHANGED cursor
    /\ UNCHANGED <<env, req, local, conn>>
    /\ UNCHANGED tasks

\* commits whatever the statement produced
ct_branch_always_commit(description) == "ct_commit"

\* "if cursor.description is not None": rows are fetched, else the statement
\* is committed
ct_branch(description) == IF description.none THEN "ct_commit" ELSE "ct_fetchall"

\* cursor.execute(query), then the test of cursor.description
ct_execute ==
    /\ pc = "ct_execute"
    /\ \/ \E d \in Descriptions :
             /\ log' = Append(log, Entry("execute", local.query, NoFailure))
             /\ pc' = ct_branch(d)
             /\ local' = [local EXCEPT !.description = d, !.columns = d.cols]
             /\ UNCHANGED <<pending, result>>
       \/ \E f \in Failures :
             /\ log' = Append(log, Entry("execute", local.query, f))
             /\ ct_except(f)
             /\ UNCHANGED local
    /\ UNCHANGED <<env, req, conn, cursor>>
    /\ UNCHANGED tasks

\* every cell through str
ct_row_values_str(row) == [j \in 1..Len(row) |-> str(row[j])]

\* a row's cells: "NULL" for None, str(value) otherwise
ct_row_values(row) ==
    [j \in 1..Len(row) |-> IF row[j].t = "NoneType" THEN <<"NULL">> ELSE str(row[j])]

\* the text of a row result (lines 242-262)
ct_rows_text(columns, rows) ==
    IF Len(rows) = 0
    THEN <<"Query returned 0 rows.", "\n", "Columns: ">> \o join(<<", ">>, columns)
    ELSE join(<<"\n">>,
              <<join(<<",">>, columns)>>
                  \o [i \in 1..Len(rows) |-> join(<<",">>, ct_row_values(rows[i]))])

\* rows = cursor.fetchall(), then the formatted rows are returned
ct_fetchall ==
    /\ pc = "ct_fetchall"
    /\ \/ \E rows \in RowSets(Len(local.columns)) :
             /\ log' = Logged("fetchall")
             /\ local' = [local EXCEPT !.rows = rows]
             /\ ct_finally(Return(<<TextContent(ct_rows_text(local.columns, rows))>>))
       \/ \E f \in Failures :
             /\ log' = Failed("fetchall", f)
             /\ ct_except(f)
             /\ UNCHANGED local
    /\ UNCHANGED <<env, req, conn, cursor>>
    /\ UNCHANGED tasks

\* conn.commit()
ct_commit ==
    /\ pc = "ct_commit"
    /\ \/ /\ log' = Logged("commit")
          /\ pc' = "ct_rowcount"
          /\ UNCHANGED <<pending, result>>
       \/ \E f \in Failures :
             /\ log' = Failed("commit", f)
             /\ ct_except(f)
    /\ UNCHANGED <<env, req, local, conn, cursor>>
    /\ UNCHANGED tasks

\* the text for a statement without rows (lines 272-283)
ct_affected_text(affected_rows) ==
    IF affected_rows = -1
    THEN <<"Query executed successfully.">>
    ELSE <<"Query executed successfully. Rows affected: ">> \o IntToStr(affected_rows)

\* affected_rows = cursor.rowcount, then the message is returned
ct_rowcount ==
    /\ pc = "ct_rowcount"
    /\ \/ \E k \in RowCounts :
             /\ log' = Logged("rowcount")
             /\ local' = [local EXCEPT !.affected_rows = PyInt(k)]
             /\ ct_finally(Return(<<TextContent(ct_affected_text(k))>>))
       \/ \E f \in Failures :
             /\ log' = Failed("rowcount", f)
             /\ ct_except(f)
             /\ UNCHANGED local
    /\ UNCHANGED <<env, req, conn, cursor>>
    /\ UNCHANGED tasks

\* conn.rollback() in "except pymssql.DatabaseError": an error it raises
\* leaves the handler, through "finally"
ct_rollback ==
    /\ pc = "ct_rollback"
    /\ \/ /\ log' = Logged("rollback")
          /\ ct_finally(pending)
       \/ \E f \in Failures :
             /\ log' = Failed("rollback", f)
             /\ ct_finally(Raise(f.cls, f.msg))
    /\ UNCHANGED <<env, req, local, conn, cursor>>
    /\ UNCHANGED tasks

\* finally: cursor.close(); an error it raises skips conn.close()
ct_cursor_close ==
    /\ pc = "ct_cursor_close"
    /\ \/ /\ cursor' = "closed"
          /\ log' = Logged("cursor.close")
          /\ IF conn # "None"
             THEN pc' = "ct_conn_close" /\ UNCHANGED result
             ELSE Ends(pending)
       \/ \E f \in Failures :
             /\ log' = Failed("cursor.close", f)
             /\ Ends(Raise(f.cls, f.msg))
             /\ UNCHANGED cursor
    /\ UNCHANGED <<env, req, local, conn, pending>>
    /\ UNCHANGED tasks

\* finally: conn.close()
ct_conn_close ==
    /\ pc = "ct_conn_close"
    /\ \/ /\ conn' = "closed"
          /\ log' = Logged("conn.close")
          /\ Ends(pending)
       \/ \E f \in Failures :
             /\ log' = Failed("conn.close", f)
             /\ Ends(Raise(f.cls, f.msg))
             /\ UNCHANGED conn
    /\ UNCHANGED <<env, req, local, cursor, pending>>
    /\ UNCHANGED tasks

----------------------------------------------------------------------------
(* call_tool of the other copy of the server,                              *)
(* src/src/mssql_mcp_server/server.py: it tells a query from a statement   *)
(* by the text, has one "except" clause and no "finally"                   *)

\* s.upper(), element by element
upper(s) ==
    [i \in 1..Len(s) |->
        CASE s[i] \in {"select", "Select", "SELECT"} -> "SELECT"
          [] s[i] \in {"information_schema.tables", "INFORMATION_SCHEMA.TABLES"} ->
                "INFORMATION_SCHEMA.TABLES"
          [] OTHER -> s[i]]

\* statements given to that call_tool
SqlTexts == {<<" ", "select", " * FROM users">>,
             <<"SELECT", " TABLE_NAME FROM ", "information_schema.tables">>,
             <<"UPDATE users SET status = 'active'">>,
             <<"CREATE TABLE t (id INT)">>}
LegacyArgumentDicts ==
    {NoArguments, Arguments(PyStr(<<>>)), Arguments(PyDict(<<"nested">>))}
        \cup {Arguments(PyStr(q)) : q \in SqlTexts}

\* query.strip().upper().startswith("SELECT")
legacy_is_select(query) == startswith(upper(strip(query)), <<"SELECT">>)
\* "INFORMATION_SCHEMA.TABLES" in query.upper()
legacy_is_table_listing(query) ==
    \E i \in 1..Len(query) : upper(query)[i] = "INFORMATION_SCHEMA.TABLES"

\* "except Exception": the error's text is returned; nothing is closed
lg_except(msg) == Ends(Return(<<TextContent(ErrorText(msg))>>))

\* lines 193-202: configuration, tool name and query are checked
legacy_call_tool_enter(name, arguments) ==
    LET config == legacy_get_db_config(env)
        command == get_command(env)
        query == GetQuery(arguments)
    IN  /\ req' = [NoReq EXCEPT !.op = "legacy_call_tool", !.name = name,
                                !.arguments = arguments]
        /\ IF config.exc # "none"
           THEN Ends(Raise(config.exc, config.val)) /\ UNCHANGED local
           ELSE IF name # command
           THEN Ends(Raise("ValueError", <<"Unknown tool: ">> \o name)) /\ UNCHANGED local
           ELSE IF ~Truthy(query)
           THEN Ends(Raise("ValueError", <<"Query is required">>)) /\ UNCHANGED local
           ELSE /\ pc' = "lg_connect"
                /\ local' = [NoLocal EXCEPT !.config = config.val, !.query = query]
                /\ UNCHANGED result

legacy_call_tool ==
    /\ pc = "idle"
    /\ \E name \in ToolNames, arguments \in LegacyArgumentDicts :
          legacy_call_tool_enter(name, arguments)
    /\ UNCHANGED <<env, conn, cursor, log, pending>>
    /\ UNCHANGED tasks

\* conn = pymssql.connect(**config)
lg_connect ==
    /\ pc = "lg_connect"
    /\ \/ /\ conn' = "open"
          /\ log' = Logged("connect")
          /\ pc' = "lg_cursor"
          /\ UNCHANGED result
       \/ \E f \in Failures :
             /\ log' = Failed("connect", f)
             /\ lg_except(f.msg)
             /\ UNCHANGED conn
    /\ UNCHANGED <<env, req, local, cursor, pending>>
    /\ UNCHANGED tasks

\* cursor = conn.cursor()
lg_cursor ==
    /\ pc = "lg_cursor"
    /\ \/ /\ cursor' = "open"
          /\ log' = Logged("cursor")
          /\ pc' = "lg_execute"
          /\ UNCHANGED result
       \/ \E f \in Failures :
             /\ log' = Failed("cursor", f)
             /\ lg_except(f.msg)
             /\ UNCHANGED cursor
    /\ UNCHANGED <<env, req, local, conn, pending>>
    /\ UNCHANGED tasks

\* lines 210-229: the branch taken after execute, chosen by the query's text
lg_branch(query, description) ==
    IF query.t # "str"
    THEN lg_except(<<"'dict' object has no attribute 'strip'">>)
    ELSE IF legacy_is_select(query.s) /\ legacy_is_table_listing(query.s)
    THEN pc' = "lg_fetch_tables" /\ UNCHANGED result
    ELSE IF legacy_is_select(query.s)
    THEN IF description.none
         THEN lg_except(<<"'NoneType' object is not iterable">>)
         ELSE pc' = "lg_fetchall" /\ UNCHANGED result
    ELSE pc' = "lg_commit" /\ UNCHANGED result

\* cursor.execute(query), then the tests of the query's text
lg_execute ==
    /\ pc = "lg_execute"
    /\ \/ \E d \in Descriptions :
             /\ log' = Append(log, Entry("execute", local.query, NoFailure))
             /\ local' = [local EXCEPT !.description = d, !.columns = d.cols]
             /\ lg_branch(local.query, d)
       \/ \E f \in Failures :
             /\ log' = Append(log, Entry("execute", local.query, f))
             /\ lg_except(f.msg)
             /\ UNCHANGED local
    /\ UNCHANGED <<env, req, conn, cursor, pending>>
    /\ UNCHANGED tasks

\* lines 212-216: the header and the first column of each row
lg_tables_text(database, tables) ==
    join(<<"\n">>, <<<<"Tables_in_">> \o database>>
                       \o [i \in 1..Len(tables) |-> tables[i][1].s])

\* tables = cursor.fetchall() of the table listing
lg_fetch_tables ==
    /\ pc = "lg_fetch_tables"
    /\ \/ \E tables \in Catalogs :
             /\ log' = Logged("fetchall")
             /\ pending' = Return(<<TextContent(
                               lg_tables_text(local.config["database"].s, tables))>>)
             /\ pc' = "lg_cursor_close"
             /\ UNCHANGED result
       \/ \E f \in Failures :
             /\ log' = Failed("fetchall", f)
             /\ lg_except(f.msg)
             /\ UNCHANGED pending
    /\ UNCHANGED <<env, req, local, conn, cursor>>
    /\ UNCHANGED tasks

\* lines 220-225: header, then each row with its cells through str
lg_rows_text(columns, rows) ==
    join(<<"\n">>,
         <<join(<<",">>, columns)>>
             \o [i \in 1..Len(rows) |->
                    join(<<",">>, [j \in 1..Len(rows[i]) |-> str(rows[i][j])])])

\* rows = cursor.fetchall() of a SELECT
lg_fetchall ==
    /\ pc = "lg_fetchall"
    /\ \/ \E rows \in RowSets(Len(local.columns)) :
             /\ log' = Logged("fetchall")
             /\ pending' = Return(<<TextContent(lg_rows_text(local.columns, rows))>>)
             /\ pc' = "lg_cursor_close"
             /\ UNCHANGED result
       \/ \E f \in Failures :
             /\ log' = Failed("fetchall", f)
             /\ lg_except(f.msg)
             /\ UNCHANGED pending
    /\ UNCHANGED <<env, req, local, conn, cursor>>
    /\ UNCHANGED tasks

\* conn.commit()
lg_commit ==
    /\ pc = "lg_commit"
    /\ \/ /\ log' = Logged("commit")
          /\ pc' = "lg_rowcount"
          /\ UNCHANGED result
       \/ \E f \in Failures :
             /\ log' = Failed("commit", f)
             /\ lg_except(f.msg)
    /\ UNCHANGED <<env, req, local, conn, cursor, pending>>
    /\ UNCHANGED tasks

\* line 233: the count is always part of the text
lg_affected_text(affected_rows) ==
    <<"Query executed successfully. Rows affected: ">> \o IntToStr(affected_rows)

\* affected_rows = cursor.rowcount
lg_rowcount ==
    /\ pc = "lg_rowcount"
    /\ \/ \E k \in RowCounts :
             /\ log' = Logged("rowcount")
             /\ local' = [local EXCEPT !.affected_rows = PyInt(k)]
             /\ pending' = Return(<<TextContent(lg_affected_text(k))>>)
             /\ pc' = "lg_cursor_close"
             /\ UNCHANGED result
       \/ \E f \in Failures :
             /\ log' = Failed("rowcount", f)
             /\ lg_except(f.msg)
             /\ UNCHANGED <<local, pending>>
    /\ UNCHANGED <<env, req, conn, cursor>>
    /\ UNCHANGED tasks

\* cursor.close(), inside the try block
lg_cursor_close ==
    /\ pc = "lg_cursor_close"
    /\ \/ /\ cursor' = "closed"
          /\ log' = Logged("cursor.close")
          /\ pc' = "lg_conn_close"
          /\ UNCHANGED result
       \/ \E f \in Failures :
             /\ log' = Failed("cursor.close", f)
             /\ lg_except(f.msg)
             /\ UNCHANGED cursor
    /\ UNCHANGED <<env, req, local, conn, pending>>
    /\ UNCHANGED tasks

\* conn.close(), then the return
lg_conn_close ==
    /\ pc = "lg_conn_close"
    /\ \/ /\ conn' = "closed"
          /\ log' = Logged("conn.close")
          /\ Ends(pending)
       \/ \E f \in Failures :
             /\ log' = Failed("conn.close", f)
             /\ lg_except(f.msg)
             /\ UNCHANGED conn
    /\ UNCHANGED <<env, req, local, cursor, pending>>
    /\ UNCHANGED tasks

NextLegacy ==
    \/ SetEnv
    \/ reply
    \/ legacy_call_tool
    \/ lg_connect
    \/ lg_cursor
    \/ lg_execute
    \/ lg_fetch_tables
    \/ lg_fetchall
    \/ lg_commit
    \/ lg_rowcount
    \/ lg_cursor_close
    \/ lg_conn_close

SpecLegacy == Init /\ [][NextLegacy]_vars

----------------------------------------------------------------------------
(* Several calls in flight.  The handlers are coroutines without any       *)
(* "await" in their bodies (the driver calls block), so the event loop     *)
(* runs a call it has started to its end before it starts another one:     *)
(* calls that are in flight together are pending ones and one running.     *)

\* the calls given to the event loop
TaskRequests ==
    {[NoReq EXCEPT !.op = "list_resources"],
     [NoReq EXCEPT !.op = "list_tools"],
     [NoReq EXCEPT !.op = "read_resource", !.uri = MSSQL \o <<"a">> \o DATA],
     [NoReq EXCEPT !.op = "read_resource", !.uri = MSSQL \o <<"a", ";">>],
     [NoReq EXCEPT !.op = "call_tool", !.name = <<"execute_sql">>,
                   !.arguments = Arguments(PyStr(<<"SELECT * FROM users">>))],
     [NoReq EXCEPT !.op = "call_tool", !.name = <<"execute_sql">>]}

\* a request arrives (asyncio.gather, or the transport's task group): it
\* takes the first free slot
submit ==
    /\ pc = "idle"
    /\ \E i \in 1..MaxTasks, r \in TaskRequests :
          /\ tasks[i].state = "free"
          /\ \A j \in 1..(i - 1) : tasks[j].state # "free"
          /\ tasks' = [tasks EXCEPT ![i] = [FreeTask EXCEPT !.state = "pending", !.req = r]]
    /\ UNCHANGED <<env, pc, req, local, conn, cursor, log, pending, result>>

\* the event loop starts one of the pending calls
run ==
    /\ pc = "idle"
    /\ \E i \in 1..MaxTasks :
          /\ tasks[i].state = "pending"
          /\ tasks' = [tasks EXCEPT ![i].state = "running"]
          /\ CASE tasks[i].req.op = "list_resources" -> list_resources_enter
               [] tasks[i].req.op = "list_tools" -> list_tools_enter
               [] tasks[i].req.op = "read_resource" -> read_resource_enter(tasks[i].req.uri)
               [] tasks[i].req.op = "call_tool" ->
                     call_tool_enter(tasks[i].req.name, tasks[i].req.arguments)
    /\ UNCHANGED <<env, conn, cursor, log, pending>>

\* keeps the connection, the cursor and the record of the driver calls in
\* module-level variables, for the next call
finish_sharing ==
    /\ pc = "done"
    /\ \E i \in 1..MaxTasks :
          /\ tasks[i].state = "running"
          /\ tasks' = [tasks EXCEPT ![i] =
                          [state |-> "finished", req |-> tasks[i].req, kind |-> result.kind,
                           failed |-> FailedCalls # {},
                           connects |-> Cardinality(Calls("connect"))]]
    /\ pc' = "idle"
    /\ req' = NoReq
    /\ local' = NoLocal
    /\ pending' = NoResult
    /\ result' = NoResult
    /\ UNCHANGED <<env, conn, cursor, log>>

\* the running call ends: its outcome goes to its awaiter, and its frame,
\* with conn and cursor, is dropped
finish ==
    /\ pc = "done"
    /\ \E i \in 1..MaxTasks :
          /\ tasks[i].state = "running"
          /\ tasks' = [tasks EXCEPT ![i] =
                          [state |-> "finished", req |-> tasks[i].req, kind |-> result.kind,
                           failed |-> FailedCalls # {},
                           connects |-> Cardinality(Calls("connect"))]]
    /\ pc' = "idle"
    /\ req' = NoReq
    /\ local' = NoLocal
    /\ conn' = "None"
    /\ cursor' = "None"
    /\ log' = <<>>
    /\ pending' = NoResult
    /\ result' = NoResult
    /\ UNCHANGED env

NextTasks ==
    \/ submit
    \/ run
    \/ finish
    \/ rr_connect
    \/ rr_cursor
    \/ rr_execute
    \/ rr_fetchall
    \/ rr_cursor_close
    \/ rr_conn_close
    \/ lr_connect
    \/ lr_cursor
    \/ lr_execute
    \/ lr_fetchall
    \/ lr_cursor_close
    \/ lr_conn_close
    \/ ct_connect
    \/ ct_cursor
    \/ ct_execute
    \/ ct_fetchall
    \/ ct_commit
    \/ ct_rowcount
    \/ ct_rollback
    \/ ct_cursor_close
    \/ ct_conn_close

SpecTasks == Init /\ [][NextTasks]_vars

----------------------------------------------------------------------------
(* validate_table_name on its own: a caller applies it to a name *)

validate ==
    /\ pc = "idle"
    /\ \E table_name \in Strings(MaxLen + 1) :
          LET r == validate_table_name(table_name)
          IN  /\ req' = [NoReq EXCEPT !.op = "validate_table_name", !.name = table_name]
              /\ Ends(IF r.exc = "none" THEN Return(r.val) ELSE Raise(r.exc, r.val))
    /\ UNCHANGED <<env, local, conn, cursor, log, pending>>
    /\ UNCHANGED tasks

\* an environment variable: unset, or set to a value
Absent == [set |-> FALSE, v |-> <<>>]
Given(v) == [set |-> TRUE, v |-> v]
\* the environment in which the variables that are set have their values
EnvOf(c) == [k \in {n \in DOMAIN c : c[n].set} |-> c[k].v]

CredentialChoices == {Absent, Given(<<>>), Given(<<"x">>)}
WindowsAuthChoices == {Absent, Given(<<>>), Given(<<"true">>), Given(<<"TRUE">>),
                       Given(<<"false">>), Given(<<"1">>)}
PortChoices == {Absent, Given(<<>>), Given(<<"1", "5">>), Given(<<" ", "7", " ">>),
                Given(<<"a", "b", "c">>), Given(<<"1", ".", "5">>)}
ServerChoices == {Absent, Given(<<>>), Given(<<"d", "b">>), Given(<<"srv", AZURE_SUFFIX>>),
                  Given(<<"srv", AZURE_SUFFIX, ".example.com">>),
                  Given(<<LOCALDB, "MSSQLLocalDB">>)}
\* every environment get_db_config is resolved under
ConfigEnvs ==
    {EnvOf(c) : c \in [MSSQL_USER : CredentialChoices, MSSQL_PASSWORD : CredentialChoices,
                       MSSQL_DATABASE : CredentialChoices,
                       MSSQL_WINDOWS_AUTH : WindowsAuthChoices,
                       MSSQL_PORT : PortChoices, MSSQL_SERVER : ServerChoices]}

InitConfig ==
    /\ env \in ConfigEnvs
    /\ pc = "idle"
    /\ req = NoReq
    /\ local = NoLocal
    /\ conn = "None"
    /\ cursor = "None"
    /\ log = <<>>
    /\ pending = NoResult
    /\ result = NoResult
    /\ tasks = NoTasks

\* main(), as far as its call of get_db_config(): the server starts with the
\* dict it returns, and the error it raises ends the process
main ==
    /\ pc = "idle"
    /\ LET config == get_db_config(env)
       IN  /\ req' = [NoReq EXCEPT !.op = "main"]
           /\ Ends(IF config.exc = "none" THEN Return(config.val)
                   ELSE Raise(config.exc, config.val))
    /\ UNCHANGED <<env, local, conn, cursor, log, pending>>
    /\ UNCHANGED tasks

NextConfig ==
    \/ main
    \/ reply

SpecConfig == InitConfig /\ [][NextConfig]_vars

NextValidate ==
    \/ validate
    \/ reply

SpecValidate == Init /\ [][NextValidate]_vars

Next ==
    \/ SetEnv
    \/ reply
    \/ read_resource
    \/ rr_connect
    \/ rr_cursor
    \/ rr_execute
    \/ rr_fetchall
    \/ rr_cursor_close
    \/ rr_conn_close
    \/ list_resources
    \/ lr_connect
    \/ lr_cursor
    \/ lr_execute
    \/ lr_fetchall
    \/ lr_cursor_close
    \/ lr_conn_close
    \/ list_tools
    \/ call_tool
    \/ ct_connect
    \/ ct_cursor
    \/ ct_execute
    \/ ct_fetchall
    \/ ct_commit
    \/ ct_rowcount
    \/ ct_rollback
    \/ ct_cursor_close
    \/ ct_conn_close

Spec == Init /\ [][Next]_vars

----------------------------------------------------------------------------
(* Properties *)

Validated == pc = "done" /\ req.op = "validate_table_name"
Dots(s) == {i \in 1..Len(s) : s[i] = "."}

\* "SELECT TOP 100 * FROM " followed by [t] or [s].[t], s and t over [A-Za-z0-9_]
IsSelectOfIdentifier(v) ==
    /\ v.t = "str"
    /\ Len(v.s) >= 4
    /\ v.s[1] = SELECT_TOP
    /\ v.s[2] = "["
    /\ v.s[Len(v.s)] = "]"
    /\ LET inner == SubSeq(v.s, 3, Len(v.s) - 1)
       IN  \/ IsWord(inner)
           \/ \E k \in 2..(Len(inner) - 3) :
                 /\ SubSeq(inner, k, k + 2) = <<"]", ".", "[">>
                 /\ IsWord(SubSeq(inner, 1, k - 1))
                 /\ IsWord(SubSeq(inner, k + 3, Len(inner)))

\* C1: every statement read_resource executes on the driver is
\* 'SELECT TOP 100 * FROM ' followed by [t] or [s].[t] with s and t non-empty
\* over [A-Za-z0-9_]; no other character of the URI reaches the SQL text.
C1_OnlyEscapedIdentifierExecuted ==
    req.op = "read_resource" =>
        \A i \in Calls("execute") : IsSelectOfIdentifier(log[i].arg)

\* C2: for a name p or p.q, p and q non-empty over [A-Za-z0-9_],
\* validate_table_name returns exactly [p] or [p].[q], parts unchanged and in order.
C2_ValidNamesEscaped ==
    Validated =>
        /\ IsWord(req.name) => result = Return(<<"[">> \o req.name \o <<"]">>)
        /\ \A k \in 1..Len(req.name) :
              LET p == SubSeq(req.name, 1, k - 1)
                  q == SubSeq(req.name, k + 1, Len(req.name))
              IN  (req.name[k] = "." /\ IsWord(p) /\ IsWord(q)) =>
                      result = Return(<<"[">> \o p \o <<"]", ".", "[">> \o q \o <<"]">>)

C2_Witness ==
    /\ Validated
    /\ req.name = <<"a", ".", "0">>
    /\ result = Return(<<"[", "a", "]", ".", "[", "0", "]">>)

\* a name the identifier rule excludes: empty, a character outside
\* [A-Za-z0-9_.], more than one dot, or an empty dot-separated part
IsBadName(s) ==
    \/ s = <<>>
    \/ \E i \in 1..Len(s) : s[i] \notin WordChars \cup {"."}
    \/ Cardinality(Dots(s)) > 1
    \/ s[1] = "."
    \/ s[Len(s)] = "."

\* C3: validate_table_name fails with the invalid-identifier error for every
\* name that is empty, holds a character outside [A-Za-z0-9_.] at any position
\* (a trailing line break included), holds more than one dot, or has an empty
\* dot-separated part; it returns no value for such a name.
C3_BadNamesRejected ==
    (Validated /\ IsBadName(req.name)) =>
        /\ result.kind = "raise"
        /\ result.cls = "ValueError"

\* the URI has a wrong scheme prefix, or its table segment fails validation
IsRejectedUri(uri) ==
    \/ ~startswith(uri, MSSQL)
    \/ validate_table_name(TableOf(uri)).exc # "none"

\* C4: on a URI with a wrong scheme prefix or a table segment that fails
\* validation, read_resource fails at once: no connection is opened and no
\* driver call is made.
C4_RejectedUriNeverReachesDriver ==
    (req.op = "read_resource" /\ IsRejectedUri(req.uri)) =>
        /\ pc = "done"
        /\ result.kind = "raise"
        /\ conn = "None"
        /\ cursor = "None"
        /\ log = <<>>

C4_Witness ==
    /\ req.op = "read_resource"
    /\ req.uri = MSSQL \o <<"a", ";">>
    /\ get_db_config(env).exc = "none"
    /\ pc = "done"
    /\ result.kind = "raise"

\* C5: read_resource reports a wrong scheme as the invalid-URI error and a
\* malformed table segment as the validator's invalid-identifier error;
\* neither is reported as, or wrapped into, the database-operation error.
C5_BadInputKeepsItsErrorKind ==
    (req.op = "read_resource" /\ pc = "done" /\ get_db_config(env).exc = "none"
        /\ IsRejectedUri(req.uri)) =>
        IF ~startswith(req.uri, MSSQL)
        THEN result = Raise("ValueError", <<"Invalid URI scheme: ">> \o req.uri)
        ELSE result = Raise("ValueError", <<"Invalid table name: ">> \o TableOf(req.uri))

\* C6: on a valid URI, a driver failure at any step of read_resource makes it
\* fail with the database-operation error carrying the driver's message; no
\* text is returned.
C6_ReadResourceDriverFailureRaises ==
    req.op = "read_resource" =>
        \A i \in FailedCalls :
            /\ pc = "done"
            /\ result = Raise("RuntimeError", <<"Database error: ">> \o log[i].err.msg)

C6_Witness ==
    /\ req.op = "read_resource"
    /\ \E i \in Calls("fetchall") : ~log[i].ok /\ log[i].err.msg = <<"Network error">>
    /\ result = Raise("RuntimeError", <<"Database error: ", "Network error">>)

\* C7: with a valid configuration, a driver failure at any step of
\* list_resources makes it return the empty sequence; nothing is raised.
C7_ListResourcesDriverFailureEmpty ==
    req.op = "list_resources" =>
        \A i \in FailedCalls :
            /\ pc = "done"
            /\ result = Return(<<>>)

C7_Witness ==
    /\ req.op = "list_resources"
    /\ \E i \in Calls("execute") : ~log[i].ok
    /\ pc = "done"
    /\ result = Return(<<>>)

\* the calls that release the cursor and the connection
Releases == {"cursor.close", "conn.close"}

\* C8: once configuration resolves and the arguments pass validation, call_tool
\* returns exactly one text item and raises nothing, whichever driver step
\* fails and whatever the class of the error (the release calls succeeding).
C8_CallToolAlwaysReturnsOneText ==
    (req.op = "call_tool" /\ pc = "done" /\ ReachedDriver
        /\ \A i \in FailedCalls : log[i].call \notin Releases) =>
        /\ result.kind = "return"
        /\ Len(result.val) = 1
        /\ result.val[1].type = "text"

\* the steps of call_tool's try block that follow the connect
AfterConnect == {"cursor", "execute", "fetchall", "commit", "rowcount"}

\* C9: when a driver error (a pymssql.DatabaseError) occurs in call_tool after
\* the connection was opened, a rollback is issued before the connection is
\* closed; if the rollback itself fails, call_tool still returns the text of
\* the original error and still releases cursor and connection.
C9_RollbackBestEffort ==
    (req.op = "call_tool" /\ pc = "done") =>
        \A i \in FailedCalls :
            (log[i].call \in AfterConnect /\ IsDatabaseError(log[i].err.cls)) =>
                /\ \E j \in Calls("rollback") :
                      /\ j > i
                      /\ \A k \in Calls("conn.close") : k > j
                /\ \A j \in Calls("rollback") :
                      ~log[j].ok =>
                          /\ result.kind = "return"
                          /\ result.val = <<TextContent(DatabaseErrorText(log[i].err.msg))>>
                          /\ Calls("conn.close") # {}
                          /\ cursor # "None" => Calls("cursor.close") # {}

\* C10: in call_tool every connection that was opened and every cursor that was
\* created is closed before the call ends, on every exit path, also when
\* closing the cursor fails.
C10_CallToolReleasesEverything ==
    (req.op = "call_tool" /\ pc = "done") =>
        /\ conn # "None" => Calls("conn.close") # {}
        /\ cursor # "None" => Calls("cursor.close") # {}

\* C11: every connection opened by list_resources or read_resource is closed
\* before the call ends, also when a later step (cursor creation, execute,
\* fetch) fails.
C11_ResourceCallsCloseConnection ==
    (req.op \in {"list_resources", "read_resource"} /\ pc = "done" /\ conn # "None") =>
        Calls("conn.close") # {}

\* what call_tool does with a wrong tool name or a missing, empty or null query
RejectsBadCall ==
    /\ req.name # get_command(env) =>
          /\ result.kind = "raise"
          /\ result = Raise("ValueError", <<"Unknown tool: ">> \o req.name)
          /\ log = <<>>
          /\ conn = "None"
    /\ (req.name = get_command(env) /\ ~Truthy(GetQuery(req.arguments))) =>
          /\ result.kind = "raise"
          /\ result = Raise("ValueError", <<"Query is required">>)
          /\ log = <<>>
          /\ conn = "None"

\* C12 as stated: call_tool fails with the unknown-tool error when name differs
\* from the configured tool name and with the validation error when the query
\* is absent, empty or null; both propagate, before any connection is opened.
C12_BadCallRejected ==
    (req.op = "call_tool" /\ pc = "done") => RejectsBadCall

\* C12 as amended: the same, when the configuration resolves.
C12_BadCallRejectedOnceConfigured ==
    (req.op = "call_tool" /\ pc = "done" /\ get_db_config(env).exc = "none") => RejectsBadCall

C12_Witness ==
    /\ req.op = "call_tool"
    /\ pc = "done"
    /\ get_db_config(env).exc = "none"
    /\ req.name = get_command(env)
    /\ req.arguments = Arguments(PyStr(<<>>))
    /\ result = Raise("ValueError", <<"Query is required">>)

\* the place of the commit among call_tool's driver calls
CommitDiscipline ==
    LET commits == Calls("commit")
    IN  /\ Cardinality(commits) <= 1
        /\ \A j \in commits :
              /\ j > 1
              /\ log[j - 1].call = "execute"
              /\ log[j - 1].ok
              /\ local.description.none
        /\ \A k \in Calls("rowcount") : \E j \in commits : j < k /\ log[j].ok
        /\ (pc = "done" /\ local.description.none
              /\ \E i \in Calls("execute") : log[i].ok) => commits # {}
        /\ (pc = "done" /\ result.kind = "return" /\ commits # {} /\ FailedCalls = {}) =>
              \E k \in RowCounts : result.val = <<TextContent(ct_affected_text(k))>>

\* C13 as stated: a commit is issued exactly when the executed statement has no
\* row schema, once, after execute and before the row count is read; on the
\* row path and on every error path no commit is issued.
C13_CommitOnlyWithoutRowsNeverOnError ==
    req.op = "call_tool" =>
        /\ CommitDiscipline
        /\ (\E i \in FailedCalls : log[i].call \notin Releases) => Calls("commit") = {}

\* C13 as amended: the same, with "error path" limited to a failure of
\* connect, cursor creation or execute; a commit or a row-count read that
\* fails leaves the commit it followed issued.
C13_CommitOnlyWithoutRows ==
    req.op = "call_tool" =>
        /\ CommitDiscipline
        /\ (\E i \in FailedCalls : log[i].call \in {"connect", "cursor", "execute"}) =>
              Calls("commit") = {}

C13_Witness ==
    /\ req.op = "call_tool"
    /\ pc = "done"
    /\ local.description.none
    /\ \E j \in Calls("commit") : log[j].ok /\ j + 1 \in Calls("rowcount")
    /\ result.kind = "return"
    /\ result = Return(<<TextContent(<<"Query executed successfully. Rows affected: ", "2">>)>>)

\* C14: for a statement with no row schema, call_tool returns 'Query executed
\* successfully. Rows affected: n' with n the count the driver reported, for
\* every n >= 0, and 'Query executed successfully.' with no count when the
\* driver reported none (-1).
C14_AffectedRowsText ==
    (req.op \in {"call_tool", "legacy_call_tool"} /\ pc = "done"
        /\ local.affected_rows.t = "int" /\ FailedCalls = {}) =>
        /\ result.kind = "return"
        /\ result.val =
              <<TextContent(IF local.affected_rows.n = -1
                            THEN <<"Query executed successfully.">>
                            ELSE <<"Query executed successfully. Rows affected: ">>
                                     \o IntToStr(local.affected_rows.n))>>

\* call_tool fetched the rows of a row result and no driver call failed
RowResultReturned ==
    /\ req.op = "call_tool"
    /\ pc = "done"
    /\ FailedCalls = {}
    /\ \E i \in Calls("fetchall") : log[i].ok

\* the lines of the text call_tool returned
ResultLines == split(result.val[1].text, "\n")

\* the header line, then one line per row in order, each cell in its column,
\* NULL for a null cell
HeaderThenRows ==
    /\ Len(ResultLines) = Len(local.rows) + 1
    /\ ResultLines[1] = join(<<",">>, local.columns)
    /\ \A i \in 1..Len(local.rows) :
          LET cells == split(ResultLines[i + 1], ",")
          IN  /\ Len(cells) = Len(local.columns)
              /\ \A j \in 1..Len(cells) :
                    cells[j] = IF local.rows[i][j] = PyNone
                               THEN <<"NULL">>
                               ELSE str(local.rows[i][j])

Resolved == req.op = "main" /\ pc = "done"
\* the variable is set to a value that is not empty
IsSet(k) == k \in DOMAIN env /\ env[k] # <<>>
\* MSSQL_WINDOWS_AUTH is "true", in any case of the letters
WindowsAuthOn ==
    "MSSQL_WINDOWS_AUTH" \in DOMAIN env
        /\ env["MSSQL_WINDOWS_AUTH"] \in {<<"true">>, <<"True">>, <<"TRUE">>}

\* C16: get_db_config fails with 'Missing required database configuration'
\* exactly when the database is unset or empty, or Windows authentication is
\* off and the user or the password is unset or empty; otherwise it returns a
\* descriptor, with Windows authentication whether or not user and password
\* are set.
C16_MissingConfigurationExactly ==
    Resolved =>
        IF ~IsSet("MSSQL_DATABASE")
              \/ (~WindowsAuthOn /\ (~IsSet("MSSQL_USER") \/ ~IsSet("MSSQL_PASSWORD")))
        THEN /\ result.kind = "raise"
             /\ result = Raise("ValueError", <<"Missing required database configuration">>)
        ELSE result.kind = "return"

C16_Witness ==
    /\ Resolved
    /\ WindowsAuthOn
    /\ IsSet("MSSQL_DATABASE")
    /\ "MSSQL_USER" \notin DOMAIN env
    /\ "MSSQL_PASSWORD" \in DOMAIN env
    /\ result.kind = "return"

\* C17: every descriptor get_db_config returns has a non-empty database; under
\* SQL authentication it has a non-empty user and a non-empty password; under
\* Windows authentication it has no user and no password field, also when
\* MSSQL_USER and MSSQL_PASSWORD are set.
C17_DescriptorCredentials ==
    (Resolved /\ result.kind = "return") =>
        /\ "database" \in DOMAIN result.val
        /\ result.val["database"].t = "str"
        /\ result.val["database"].s # <<>>
        /\ IF WindowsAuthOn
           THEN "user" \notin DOMAIN result.val /\ "password" \notin DOMAIN result.val
           ELSE /\ {"user", "password"} \subseteq DOMAIN result.val
                /\ result.val["user"].t = "str" /\ result.val["user"].s # <<>>
                /\ result.val["password"].t = "str" /\ result.val["password"].s # <<>>

C17_Witness ==
    /\ Resolved
    /\ WindowsAuthOn
    /\ IsSet("MSSQL_USER")
    /\ IsSet("MSSQL_PASSWORD")
    /\ result.kind = "return"
    /\ "user" \notin DOMAIN result.val

\* the values of MSSQL_PORT, among those drawn, that int() accepts
ParsablePorts == {<<"1", "5">>, <<" ", "7", " ">>}

\* C18: an MSSQL_PORT that does not parse as an integer does not make
\* get_db_config fail and is ignored: the descriptor's port is the default
\* 1433 or absent, never the unparsable value; one that parses gives that
\* integer as the port.
C18_UnparsablePortIgnored ==
    (Resolved /\ IsSet("MSSQL_PORT") /\ IsSet("MSSQL_DATABASE")
        /\ (WindowsAuthOn \/ (IsSet("MSSQL_USER") /\ IsSet("MSSQL_PASSWORD")))) =>
        /\ result.kind = "return"
        /\ IF env["MSSQL_PORT"] \in ParsablePorts
           THEN /\ "port" \in DOMAIN result.val
                /\ result.val["port"] \in {PyInt(15), PyInt(7)}
           ELSE \/ "port" \notin DOMAIN result.val
                \/ result.val["port"] \in {PyInt(1433), PyStr(<<"1", "4", "3", "3">>)}

\* C19: the descriptor has tds_version = '7.4' exactly when its host contains
\* '.database.windows.net'; for every other host it has no tds_version field.
C19_TdsVersionForAzureHosts ==
    (Resolved /\ result.kind = "return") =>
        LET host == result.val["server"].s
        IN  IF \E i \in 1..Len(host) : host[i] = ".database.windows.net"
            THEN /\ "tds_version" \in DOMAIN result.val
                 /\ result.val["tds_version"] = PyStr(<<"7.4">>)
            ELSE "tds_version" \notin DOMAIN result.val

C19_Witness ==
    /\ Resolved
    /\ result.kind = "return"
    /\ result.val["server"] = PyStr(<<"srv", ".database.windows.net", ".example.com">>)
    /\ result.val["tds_version"] = PyStr(<<"7.4">>)

\* the environment lacks what the authentication mode requires
ConfigurationMissing ==
    \/ ~IsSet("MSSQL_DATABASE")
    \/ ~WindowsAuthOn /\ (~IsSet("MSSQL_USER") \/ ~IsSet("MSSQL_PASSWORD"))

\* C20: when the environment does not resolve to a configuration, each of
\* list_resources, read_resource and call_tool fails with the configuration
\* error, raised to the caller before any connection is opened, whatever the
\* URI, the tool name and the arguments.
C20_ConfigurationErrorFirst ==
    (req.op \in {"list_resources", "read_resource", "call_tool"} /\ ConfigurationMissing) =>
        /\ pc = "done"
        /\ result.kind = "raise"
        /\ result = Raise("ValueError", <<"Missing required database configuration">>)
        /\ log = <<>>
        /\ conn = "None"
        /\ cursor = "None"

C20_Witness ==
    /\ req.op = "call_tool"
    /\ ConfigurationMissing
    /\ req.name = <<"drop_all">>
    /\ req.arguments = NoArguments
    /\ result.kind = "raise"
    /\ result.val = <<"Missing required database configuration">>

\* the text the caller of read_resource or call_tool gets to see
VisibleText ==
    IF result.kind = "raise" THEN result.val
    ELSE IF result.kind = "return" /\ req.op = "call_tool" THEN result.val[1].text
    ELSE IF result.kind = "return" /\ req.op = "read_resource" THEN result.val
    ELSE <<>>

\* passwords: the configured one and the one the driver's message holds
Passwords == {SECRET} \cup {env[k][i] : k \in {"MSSQL_PASSWORD"} \cap DOMAIN env,
                                        i \in 1..Len(getenv_or(env, "MSSQL_PASSWORD", <<>>).s)}

\* C21: no text returned by call_tool and no error raised by read_resource
\* holds a password, the configured one or one that the driver's own error
\* message holds.
C21_NoPasswordInVisibleText ==
    (req.op \in {"call_tool", "read_resource"} /\ pc = "done") =>
        \A i \in 1..Len(VisibleText) : VisibleText[i] \notin Passwords

\* the value of MSSQL_COMMAND, 'execute_sql' when it is unset
ExpectedToolName ==
    IF "MSSQL_COMMAND" \in DOMAIN env THEN env["MSSQL_COMMAND"] ELSE <<"execute_sql">>

IsUnknownToolError ==
    /\ result.kind = "raise"
    /\ result.cls = "ValueError"
    /\ result.val = <<"Unknown tool: ">> \o req.name

\* C22: list_tools returns exactly one tool, named by MSSQL_COMMAND or
\* 'execute_sql' when that is unset, whose schema requires the single string
\* field 'query'; under the same environment call_tool accepts a name exactly
\* when it is that name.
C22_OneToolNamedByCommand ==
    /\ (req.op = "list_tools" /\ pc = "done") =>
          /\ result.kind = "return"
          /\ Len(result.val) = 1
          /\ result.val[1].name = ExpectedToolName
          /\ result.val[1].required = <<"query">>
          /\ DOMAIN result.val[1].properties = {"query"}
          /\ result.val[1].properties["query"] = "string"
          /\ log = <<>>
    /\ (req.op = "call_tool" /\ pc = "done") =>
          IF req.name = ExpectedToolName
          THEN ~IsUnknownToolError
          ELSE /\ result.kind = "raise"
               /\ log = <<>>
               /\ ~ConfigurationMissing => IsUnknownToolError

C22_Witness ==
    /\ req.op = "list_tools"
    /\ pc = "done"
    /\ "MSSQL_COMMAND" \in DOMAIN env
    /\ result.val[1].name = <<"run_sql">>

\* C23: on success list_resources returns one resource per table row of the
\* driver, in the driver's order and unfiltered: uri 'mssql://t/data', name
\* 'Table: t', mimeType 'text/plain' for table t; the empty sequence for an
\* empty catalog.
C23_OneResourcePerTable ==
    (req.op = "list_resources" /\ pc = "done" /\ FailedCalls = {}
        /\ Calls("fetchall") # {}) =>
        /\ result.kind = "return"
        /\ Len(result.val) = Len(local.rows)
        /\ \A i \in 1..Len(local.rows) :
              LET t == local.rows[i][1].s
              IN  /\ result.val[i].uri =
                        <<"m", "s", "s", "q", "l", ":", "/", "/">> \o t
                            \o <<"/", "d", "a", "t", "a">>
                  /\ result.val[i].name = <<"Table: ">> \o t
                  /\ result.val[i].mimeType = <<"text/plain">>

C23_Witness ==
    /\ req.op = "list_resources"
    /\ pc = "done"
    /\ FailedCalls = {}
    /\ local.rows = <<<<PyStr(<<"a", "'">>)>>, <<PyStr(<<"a">>)>>>>
    /\ Len(result.val) = 2
    /\ result.val[1].uri = <<"m", "s", "s", "q", "l", ":", "/", "/", "a", "'", "/", "d", "a", "t", "a">>
    /\ result.val[2].name = <<"Table: ", "a">>

\* C24: in every server module the text call_tool returns after a failed
\* execution holds the marker 'Error executing query', whatever the class of
\* the exception the driver raised.
C24_ErrorTextHasMarker ==
    (req.op \in {"call_tool", "legacy_call_tool"} /\ pc = "done"
        /\ FailedCalls # {} /\ result.kind = "return") =>
        \E i \in 1..Len(result.val[1].text) :
            result.val[1].text[i] = "Error executing query: "

\* the descriptor of the call in progress holds the values the environment has
DescriptorOfCurrentEnv ==
    /\ local.config["server"].s =
          (IF "MSSQL_SERVER" \in DOMAIN env THEN env["MSSQL_SERVER"] ELSE <<"localhost">>)
    /\ local.config["database"].s = env["MSSQL_DATABASE"]
    /\ "user" \in DOMAIN local.config <=> ~WindowsAuthOn
    /\ "user" \in DOMAIN local.config =>
          /\ local.config["user"].s = env["MSSQL_USER"]
          /\ local.config["password"].s = env["MSSQL_PASSWORD"]

\* C25: list_resources, read_resource and call_tool build the descriptor they
\* connect with, and call_tool and list_tools the tool name, from the
\* environment as it is when the call starts: after a change of the
\* environment between two calls nothing resolved earlier or at the start is
\* used again.
C25_EnvironmentReadPerCall ==
    /\ (req.op \in {"list_resources", "read_resource", "call_tool"} /\ ReachedDriver) =>
          /\ ~ConfigurationMissing
          /\ DescriptorOfCurrentEnv
    /\ (req.op = "list_tools" /\ pc = "done") => result.val[1].name = ExpectedToolName
    /\ (req.op = "call_tool" /\ ReachedDriver) => req.name = ExpectedToolName

C25_Witness ==
    /\ env # StartEnv
    /\ req.op = "call_tool"
    /\ \E i \in Calls("connect") : log[i].ok
    /\ req.name = <<"run_sql">>
    /\ local.config["server"] = PyStr(<<"srv", ".database.windows.net">>)
    /\ "user" \notin DOMAIN local.config

\* C28: read_resource renders its row set as call_tool renders a row result
\* with the same columns and rows: the same text, NULL for a null cell and the
\* zero-rows note for an empty table.
C28_ReadResourceFormatsAsCallTool ==
    (req.op = "read_resource" /\ pc = "done" /\ FailedCalls = {}
        /\ Calls("fetchall") # {}) =>
        /\ result.kind = "return"
        /\ result.val = ct_rows_text(local.columns, local.rows)

\* the 'query' argument is a string that is not empty
QueryIsText(arguments) ==
    /\ arguments.has_query
    /\ arguments.query.t = "str"
    /\ arguments.query.s # <<>>

\* C29: call_tool rejects, with a validation failure raised to the caller,
\* every arguments value whose 'query' is not a non-empty string, a nested
\* object included; such a value never reaches the driver.
C29_NonTextQueryRejected ==
    (req.op \in {"call_tool", "legacy_call_tool"} /\ ~QueryIsText(req.arguments)) =>
        /\ pc = "done"
        /\ result.kind = "raise"
        /\ log = <<>>

\* t consists of [A-Za-z0-9_] and at most one '.', between two such parts
IsIdentifier(t) ==
    /\ \A i \in 1..Len(t) : t[i] \in WordChars \cup {"."}
    /\ Cardinality(Dots(t)) <= 1
    /\ t # <<>> /\ t[1] # "." /\ t[Len(t)] # "."

\* t with its parts in brackets
Escaped(t) ==
    IF Dots(t) = {} THEN <<"[">> \o t \o <<"]">>
    ELSE LET k == CHOOSE d \in Dots(t) : TRUE
         IN  <<"[">> \o SubSeq(t, 1, k - 1) \o <<"]", ".", "[">>
                 \o SubSeq(t, k + 1, Len(t)) \o <<"]">>

\* C30: for every table name t that list_resources gives out, read_resource on
\* 'mssql://t/data' queries exactly table t when t is an identifier, and fails
\* without reaching the driver for any other t; it never queries another
\* table.
C30_ListedUriReadsItsTable ==
    req.op = "read_resource" =>
        \A t \in TableNames :
            req.uri = <<"m", "s", "s", "q", "l", ":", "/", "/">> \o t
                          \o <<"/", "d", "a", "t", "a">> =>
                IF IsIdentifier(t)
                THEN \A i \in Calls("execute") :
                        log[i].arg = PyStr(<<"SELECT TOP 100 * FROM ">> \o Escaped(t))
                ELSE /\ pc = "done"
                     /\ result.kind = "raise"
                     /\ log = <<>>

\* the calls that ended
Finished == {i \in 1..MaxTasks : tasks[i].state = "finished"}

\* the request passes the handler's checks, so that the handler goes to the driver
PassesValidation(r) ==
    /\ ~ConfigurationMissing
    /\ r.op # "list_tools"
    /\ r.op = "read_resource" => ~IsRejectedUri(r.uri)
    /\ r.op = "call_tool" => r.name = ExpectedToolName /\ QueryIsText(r.arguments)

RECURSIVE Connections(_)
\* the connect calls of the calls in S, together
Connections(S) ==
    IF S = {} THEN 0
    ELSE LET i == CHOOSE j \in S : TRUE
         IN  tasks[i].connects + Connections(S \ {i})

\* C26: every call that reaches the driver opens exactly one connection of its
\* own and uses no connection of another call: n calls that pass validation
\* open n connections, list_tools opens none.
C26_OneConnectionPerCall ==
    /\ Connections(Finished) = Cardinality({i \in Finished : PassesValidation(tasks[i].req)})
    /\ \A i \in Finished : tasks[i].req.op = "list_tools" => tasks[i].connects = 0
    /\ Cardinality(Calls("connect")) <= 1
    /\ \A k \in 1..Len(log) : log[1].call = "connect" /\ (k > 1 => log[1].ok)
    /\ pc = "idle" => conn = "None" /\ cursor = "None"

C26_Witness ==
    /\ tasks[1].state = "finished"
    /\ tasks[1].req.op = "list_resources"
    /\ tasks[1].connects = 1
    /\ tasks[2].state = "finished"
    /\ tasks[2].req.op = "call_tool"
    /\ tasks[2].connects = 1
    /\ Connections(Finished) = 2

\* the error of the first driver call of the running call that failed
FirstFailure == log[CHOOSE k \in FailedCalls : \A j \in FailedCalls : k <= j].err

\* the outcome of the running call is the one its own driver responses give
OwnOutcome ==
    CASE req.op = "list_resources" ->
             /\ result.kind = "return"
             /\ Len(result.val) = IF FailedCalls = {} THEN Len(local.rows) ELSE 0
      [] req.op = "read_resource" ->
             IF FailedCalls = {}
             THEN local.columns # <<>> =>
                     /\ result.kind = "return"
                     /\ result.val = rr_text(local.columns, local.rows)
             ELSE /\ result.kind = "raise"
                  /\ result.val = <<"Database error: ">> \o FirstFailure.msg
      [] req.op = "call_tool" ->
             IF FailedCalls = {}
             THEN /\ result.kind = "return"
                  /\ result.val[1].text[1] \notin {"Database error: ", "Error executing query: "}
             ELSE /\ result.kind = "return" =>
                        result.val[1].text \in
                            {<<"Database error: ">> \o FirstFailure.msg,
                             <<"Error executing query: ">> \o FirstFailure.msg}
                  /\ result.kind = "raise" =>
                        \E k \in FailedCalls : result.val = log[k].err.msg
      [] OTHER -> TRUE

====
